---------------------------- MODULE Spec2Model ----------------------------
(***************************************************************************)
(* State-machine model of the Telegram analysis bot (src/bot.py) and its   *)
(* persistence wrapper (src/database.py).                                  *)
(*                                                                         *)
(* Tables with a primary key are sets of rows, tables with a BIGSERIAL key *)
(* are sequences (the position is the generated id).  The aiogram FSM      *)
(* storage is a function from storage keys to a state and its data.  Each  *)
(* handler of bot.py is one action; the external services (Telegram        *)
(* transport, Whisper, the AI client) are inputs of the action (their      *)
(* outcome) and entries of `effects` (the calls the handler made).         *)
(***************************************************************************)
EXTENDS Integers, Sequences, FiniteSets, TLC

(***************************************************************************)
(* Bounds of the model and input domains.                                  *)
(***************************************************************************)
MaxMessages == 2
MaxResults == 1

UserIds == {1, 2}
ChatIds == {1, 2}
\* Chat 1 is the private chat of user 1 with the bot (a private chat's id is
\* the user's id, and only that user writes in it); chat 2 is a group.
Senders(chat_id) == IF chat_id = 1 THEN {1} ELSE UserIds
Contexts == {cu \in ChatIds \X UserIds : cu[2] \in Senders(cu[1])}
ChatType(chat_id) == IF chat_id = 1 THEN "private" ELSE "group"
ConnIds == {"biz1"}
FileIds == {"f1"}
Dates == {1}
Texts == {"what did we discuss?"}
Transcripts == {"hello world"}
AnalysisTexts == {"analysis"}
Errors == {"boom"}

\* Python's None in a text column, a user id column, and a chat id.
None == "None"
NoUser == 0
NoChat == 0

VARIABLES
    users,                  \* table users
    chats,                  \* table chats
    messages,               \* table messages
    business_connections,   \* table business_connections
    analysis_results,       \* table analysis_results
    fsm,                    \* MemoryStorage of the dispatcher
    tmp_files,              \* /tmp/voice_<file_id>.ogg files that exist
    event,                  \* the update the dispatcher handled last
    effects,                \* the external calls its handler made, in order
    tasks                   \* the handlers started as tasks, in arrival order

db == <<users, chats, messages, business_connections, analysis_results>>
vars == <<users, chats, messages, business_connections, analysis_results,
          fsm, tmp_files, event, effects, tasks>>

(***************************************************************************)
(* database.py                                                             *)
(***************************************************************************)
\* INSERT ... ON CONFLICT (user_id) DO UPDATE SET ..., is_authorized = TRUE
add_user(user_id) ==
    {r \in users : r.user_id # user_id}
        \cup {[user_id |-> user_id, is_authorized |-> TRUE]}

\* fetchrow: the rows with this key (none stands for Python's None)
get_user(user_id) == {r \in users : r.user_id = user_id}

\* Variant: a user without a row counts as authorized.
is_user_authorized_unknown_passes(user_id) ==
    \/ get_user(user_id) = {}
    \/ \E r \in get_user(user_id) : r.is_authorized

\* return user and user.get("is_authorized", False)
is_user_authorized(user_id) ==
    \E r \in get_user(user_id) : r.is_authorized

\* The operations on chats take the table they run on (self.pool's chats).
get_chat(table, chat_id) == {r \in table : r.chat_id = chat_id}

\* Variant: INSERT ... ON CONFLICT (chat_id) DO UPDATE SET chat_type = $2,
\* title = $3, transcription_enabled = TRUE
add_chat_resets_flag(table, chat_id, chat_type) ==
    {r \in table : r.chat_id # chat_id}
        \cup {[chat_id |-> chat_id, chat_type |-> chat_type,
               transcription_enabled |-> TRUE]}

\* INSERT INTO chats (chat_id, chat_type, title) ... ON CONFLICT DO UPDATE
\* SET chat_type, title: a new row takes the column default TRUE, an
\* existing row keeps its transcription_enabled.
add_chat(table, chat_id, chat_type) ==
    IF get_chat(table, chat_id) = {}
    THEN table \cup {[chat_id |-> chat_id, chat_type |-> chat_type,
                      transcription_enabled |-> TRUE]}
    ELSE {IF r.chat_id = chat_id THEN [r EXCEPT !.chat_type = chat_type] ELSE r
          : r \in table}

\* Variant: the UPDATE writes FALSE whatever `enabled` is.
set_transcription_enabled_only_disables(table, chat_id, enabled) ==
    {IF r.chat_id = chat_id THEN [r EXCEPT !.transcription_enabled = FALSE]
     ELSE r : r \in table}

\* Variant: the UPDATE writes the negation of `enabled`.
set_transcription_enabled_negated(table, chat_id, enabled) ==
    {IF r.chat_id = chat_id THEN [r EXCEPT !.transcription_enabled = ~enabled]
     ELSE r : r \in table}

\* UPDATE chats SET transcription_enabled = $1 WHERE chat_id = $2
set_transcription_enabled(table, chat_id, enabled) ==
    {IF r.chat_id = chat_id THEN [r EXCEPT !.transcription_enabled = enabled]
     ELSE r : r \in table}

\* Variant: the stored flag is not looked at.
is_transcription_enabled_always(table, chat_id) == TRUE

\* Variant: an unknown chat counts as disabled.
is_transcription_enabled_unknown_off(table, chat_id) ==
    \E r \in get_chat(table, chat_id) : r.transcription_enabled

\* True for an unknown chat, else the stored flag
is_transcription_enabled(table, chat_id) ==
    IF get_chat(table, chat_id) = {} THEN TRUE
    ELSE \E r \in get_chat(table, chat_id) : r.transcription_enabled

\* Variant: the transcription column is left out of the INSERT.
add_message_without_transcription(chat_id, user_id, message_text, message_date, is_voice, transcription) ==
    Append(messages, [chat_id |-> chat_id, user_id |-> user_id,
                      message_text |-> message_text,
                      message_date |-> message_date,
                      is_voice |-> is_voice,
                      transcription |-> None])

\* INSERT INTO messages (...)
add_message(chat_id, user_id, message_text, message_date, is_voice, transcription) ==
    Append(messages, [chat_id |-> chat_id, user_id |-> user_id,
                      message_text |-> message_text,
                      message_date |-> message_date,
                      is_voice |-> is_voice,
                      transcription |-> transcription])

\* ORDER BY message_date DESC: row a is placed before row b.  (SortSeq keeps
\* rows that neither is placed before the other in the order it finds them:
\* rows of equal message_date stay in insertion order.)
Newer(a, b) == a.message_date > b.message_date

\* The first `limit` rows.
Limit(rows, limit) ==
    SubSeq(rows, 1, IF Len(rows) < limit THEN Len(rows) ELSE limit)

\* Variant: ORDER BY message_date ASC.
Older(a, b) == a.message_date < b.message_date

get_chat_messages_oldest_first(chat_id, limit) ==
    Limit(SortSeq(SelectSeq(messages, LAMBDA r : r.chat_id = chat_id), Older),
          limit)

\* Variant: the WHERE clause is missing.
get_chat_messages_of_any_chat(chat_id, limit) ==
    Limit(SortSeq(messages, Newer), limit)

\* SELECT * FROM messages WHERE chat_id = $1 ORDER BY message_date DESC LIMIT $2
get_chat_messages(chat_id, limit) ==
    Limit(SortSeq(SelectSeq(messages, LAMBDA r : r.chat_id = chat_id), Newer),
          limit)

\* Variant: chat_id and user_id are bound to each other's column.
add_analysis_result_swapped(chat_id, user_id, analysis_type, result_text) ==
    Append(analysis_results, [chat_id |-> user_id, user_id |-> chat_id,
                              analysis_type |-> analysis_type,
                              result_text |-> result_text])

\* INSERT INTO analysis_results (...)
add_analysis_result(chat_id, user_id, analysis_type, result_text) ==
    Append(analysis_results, [chat_id |-> chat_id, user_id |-> user_id,
                              analysis_type |-> analysis_type,
                              result_text |-> result_text])

\* INSERT ... ON CONFLICT (connection_id) DO UPDATE SET ..., is_active = TRUE
add_business_connection(connection_id, user_id, user_chat_id) ==
    {r \in business_connections : r.connection_id # connection_id}
        \cup {[connection_id |-> connection_id, user_id |-> user_id,
               user_chat_id |-> user_chat_id, is_active |-> TRUE]}

\* Variant: DELETE FROM business_connections WHERE connection_id = $1
remove_business_connection_deletes(connection_id) ==
    {r \in business_connections : r.connection_id # connection_id}

\* UPDATE business_connections SET is_active = FALSE WHERE connection_id = $1
remove_business_connection(connection_id) ==
    {IF r.connection_id = connection_id THEN [r EXCEPT !.is_active = FALSE]
     ELSE r : r \in business_connections}

\* Variant: SELECT ... WHERE connection_id = $1, whatever is_active is
get_business_connection_inactive_too(connection_id) ==
    {r \in business_connections : r.connection_id = connection_id}

\* SELECT ... WHERE connection_id = $1 AND is_active = TRUE
get_business_connection(connection_id) ==
    {r \in business_connections :
        r.connection_id = connection_id /\ r.is_active}


(***************************************************************************)
(* bot.py: storage, keyboards and rendered texts                           *)
(***************************************************************************)
\* limit=300 of both get_chat_messages calls
AnalysisLimit == 300

\* The rows appended to a table: a behaviour starts from an empty messages
\* table or (InitHistory) from one that holds a full page of AnalysisLimit
\* rows, and MaxMessages bounds the rows appended since.
Appended(table) ==
    IF Len(table) >= AnalysisLimit THEN Len(table) - AnalysisLimit
    ELSE Len(table)

\* AnalysisStates.waiting_for_custom_query.state
Waiting == "AnalysisStates:waiting_for_custom_query"

\* dp = Dispatcher(storage=MemoryStorage()): the dispatcher's default FSM
\* strategy (USER_IN_CHAT) keys a handler's FSMContext by the chat and the
\* user of the update it handles.
\* Variant: the key of the GLOBAL_USER strategy, which ignores the chat.
StorageKey_global_user(chat_id, user_id) == <<user_id, user_id>>

StorageKey(chat_id, user_id) == <<chat_id, user_id>>

Cleared == [state |-> None, chat_id |-> NoChat]

\* await state.get_state() / (await state.get_data()).get("chat_id")
get_state(key) == fsm[key].state
get_data(key) == fsm[key].chat_id

\* Variant: a pending entry is kept as it is.
set_waiting_keeps_pending(key, chat_id) ==
    IF fsm[key].state = Waiting THEN fsm
    ELSE [fsm EXCEPT ![key] = [state |-> Waiting, chat_id |-> chat_id]]

\* await state.set_state(...); await state.update_data(chat_id=chat_id)
set_waiting(key, chat_id) ==
    [fsm EXCEPT ![key] = [state |-> Waiting, chat_id |-> chat_id]]

\* Variant: state.clear() is called without await, so it never runs.
clear_not_awaited(key) == fsm

\* await state.clear()
clear(key) == [fsm EXCEPT ![key] = Cleared]

AnalysisTypes == {"summary", "insights", "topics", "sentiment", "custom"}

\* titles.get(analysis_type, default)
titles(analysis_type) ==
    CASE analysis_type = "summary" -> "title_summary"
      [] analysis_type = "insights" -> "title_insights"
      [] analysis_type = "topics" -> "title_topics"
      [] analysis_type = "sentiment" -> "title_sentiment"
      [] OTHER -> "title_default"

\* One external call of a handler: a transport call (answer, edit_text,
\* edit_reply_markup, callback_answer, send_message), a service call
\* (transcribe_audio, analyze_messages, custom_analysis) or a file operation.
\* `tag` names the fixed part of a rendered text, a file call's file id, or
\* whether a service call returned or raised; `body` is the variable part of
\* a text (a transcript, a result, an error description) or what a service
\* call returned or raised; `via` is the business_connection_id a send
\* carries (None for every other call).
Call(op, tag, body) == [op |-> op, tag |-> tag, body |-> body, via |-> None]

\* Variant: the send names no business connection.
Relay_without_connection(connection_id, tag, body) ==
    [op |-> "send_message", tag |-> tag, body |-> body, via |-> None]

\* bot.send_message(chat_id=..., text=..., business_connection_id=
\* message.business_connection_id, reply_to_message_id=message.message_id):
\* the relay of a text into a business chat, as a reply to the update's
\* message.
Relay(connection_id, tag, body) ==
    [op |-> "send_message", tag |-> tag, body |-> body, via |-> connection_id]

\* The update handled last: its kind, its from_user and chat, the chat id and
\* the word its callback data carry (or its connection id), its is_enabled;
\* and `prior`, what the handler found in the place it then wrote: the
\* pending chat id of its FSM key, or the flag a toggle read (as 1 or 0).
Event(kind, user_id, chat_id, target, arg, prior) ==
    [kind |-> kind, user_id |-> user_id, chat_id |-> chat_id,
     target |-> target, arg |-> arg, prior |-> prior]

voice_path(file_id) == file_id

(***************************************************************************)
(* bot.py: command handlers                                                *)
(***************************************************************************)
cmd_start(user_id, chat_id) ==
    /\ users' = add_user(user_id)
    /\ event' = Event("cmd_start", user_id, chat_id, NoChat, None, 0)
    /\ effects' = <<Call("answer", "welcome_main_menu", None)>>
    /\ UNCHANGED <<chats, messages, business_connections, analysis_results,
                   fsm, tmp_files>>

cmd_menu(user_id, chat_id) ==
    /\ event' = Event("cmd_menu", user_id, chat_id, NoChat, None, 0)
    /\ effects' = <<Call("answer", "main_menu", None)>>
    /\ UNCHANGED <<db, fsm, tmp_files>>

(***************************************************************************)
(* bot.py: voice messages                                                  *)
(***************************************************************************)
VoiceOutcomes ==
    {[kind |-> "ok", text |-> t] : t \in Transcripts}
        \cup {[kind |-> k, text |-> e] :
                k \in {"download_failed", "transcribe_failed"}, e \in Errors}

\* The try block of handle_voice and what its except clause does, for one
\* outcome of the download and the transcription.
voice_attempt(user_id, chat_id, file_id, date, outcome) ==
    CASE outcome.kind = "download_failed" ->
            /\ effects' = <<Call("get_file", file_id, None),
                            Call("answer", "voice_error", outcome.text)>>
            /\ UNCHANGED <<messages, tmp_files>>
      [] outcome.kind = "transcribe_failed" ->
            /\ tmp_files' = tmp_files \cup {voice_path(file_id)}
            /\ effects' = <<Call("get_file", file_id, None),
                            Call("download_file", file_id, None),
                            Call("answer", "transcribing", None),
                            Call("transcribe_audio", "raised", outcome.text),
                            Call("answer", "voice_error", outcome.text)>>
            /\ UNCHANGED messages
      [] OTHER ->
            /\ Appended(messages) < MaxMessages
            /\ tmp_files' = tmp_files \ {voice_path(file_id)}
            /\ messages' = add_message(chat_id, user_id, None, date, TRUE,
                                       outcome.text)
            /\ effects' = <<Call("get_file", file_id, None),
                            Call("download_file", file_id, None),
                            Call("answer", "transcribing", None),
                            Call("transcribe_audio", "returned", outcome.text),
                            Call("remove", file_id, None),
                            Call("edit_text", "transcript", outcome.text)>>

voice_try(user_id, chat_id, file_id, date) ==
    \E outcome \in VoiceOutcomes :
        voice_attempt(user_id, chat_id, file_id, date, outcome)

handle_voice(user_id, chat_id, file_id, date) ==
    /\ event' = Event("voice", user_id, chat_id, NoChat, None, 0)
    /\ IF ~is_user_authorized(user_id)
       THEN /\ effects' = <<Call("answer", "not_authorized", None)>>
            /\ UNCHANGED <<chats, messages, tmp_files>>
       ELSE IF ~is_transcription_enabled(chats, chat_id)
       THEN /\ Appended(messages) < MaxMessages
            /\ messages' = add_message(chat_id, user_id, None, date, TRUE, None)
            /\ effects' = <<>>
            /\ UNCHANGED <<chats, tmp_files>>
       ELSE /\ chats' = add_chat(chats, chat_id, ChatType(chat_id))
            /\ voice_try(user_id, chat_id, file_id, date)
    /\ UNCHANGED <<users, business_connections, analysis_results, fsm>>

(***************************************************************************)
(* bot.py: text messages                                                   *)
(***************************************************************************)
AnalysisOutcomes ==
    {[kind |-> "ok", text |-> t] : t \in AnalysisTexts}
        \cup {[kind |-> "analysis_failed", text |-> e] : e \in Errors}

\* Variant: state.clear() runs in a finally clause, on failure too.
custom_attempt_always_clears(key, user_id, text, outcome) ==
    LET target_chat_id == get_data(key)
    IN  /\ fsm' = clear(key)
        /\ IF outcome.kind = "ok"
           THEN /\ Len(analysis_results) < MaxResults
                /\ analysis_results' =
                       add_analysis_result(target_chat_id, user_id, "custom",
                                           outcome.text)
                /\ effects' = <<Call("answer", "analysing", None),
                                Call("custom_analysis", "returned", outcome.text),
                                Call("edit_text", "analysis_result", outcome.text),
                                Call("answer", "choose_action", None)>>
           ELSE /\ effects' = <<Call("answer", "analysing", None),
                                Call("custom_analysis", "raised", outcome.text)>>
                /\ UNCHANGED analysis_results

\* The branch of handle_text taken while the custom query is awaited: the
\* call of custom_analysis and what follows it, for one outcome of the call.
custom_attempt(key, user_id, text, outcome) ==
    LET target_chat_id == get_data(key)
    IN  IF outcome.kind = "ok"
        THEN /\ Len(analysis_results) < MaxResults
             /\ analysis_results' =
                    add_analysis_result(target_chat_id, user_id, "custom",
                                        outcome.text)
             /\ effects' = <<Call("answer", "analysing", None),
                             Call("custom_analysis", "returned", outcome.text),
                             Call("edit_text", "analysis_result", outcome.text),
                             Call("answer", "choose_action", None)>>
             /\ fsm' = clear(key)
        \* custom_analysis raises: the exception leaves the handler
        ELSE /\ effects' = <<Call("answer", "analysing", None),
                             Call("custom_analysis", "raised", outcome.text)>>
             /\ UNCHANGED <<analysis_results, fsm>>

custom_query(key, user_id, text) ==
    IF get_chat_messages(get_data(key), AnalysisLimit) = <<>>
    THEN /\ effects' = <<Call("answer", "no_messages", None)>>
         /\ fsm' = clear(key)
         /\ UNCHANGED analysis_results
    ELSE \E outcome \in AnalysisOutcomes :
            custom_attempt(key, user_id, text, outcome)

handle_text(user_id, chat_id, text, date) ==
    LET key == StorageKey(chat_id, user_id)
    IN  /\ event' = Event("text", user_id, chat_id, NoChat, None, get_data(key))
        /\ IF get_state(key) = Waiting
           THEN /\ custom_query(key, user_id, text)
                /\ UNCHANGED <<chats, messages>>
           ELSE IF ~is_user_authorized(user_id)
           THEN /\ effects' = <<>>
                /\ UNCHANGED <<chats, messages, analysis_results, fsm>>
           ELSE /\ Appended(messages) < MaxMessages
                /\ chats' = add_chat(chats, chat_id, ChatType(chat_id))
                /\ messages' = add_message(chat_id, user_id, text, date, FALSE,
                                           None)
                /\ effects' = <<>>
                /\ UNCHANGED <<analysis_results, fsm>>
        /\ UNCHANGED <<users, business_connections, tmp_files>>

(***************************************************************************)
(* bot.py: callback queries                                                *)
(***************************************************************************)
callback_back_to_menu(user_id, chat_id) ==
    /\ fsm' = clear(StorageKey(chat_id, user_id))
    /\ event' = Event("back_to_menu", user_id, chat_id, NoChat, None, 0)
    /\ effects' = <<Call("edit_text", "main_menu", None),
                    Call("callback_answer", None, None)>>
    /\ UNCHANGED <<db, tmp_files>>

\* callback_list_private, callback_list_groups, callback_list_channels and
\* callback_settings: a placeholder text with the back keyboard.
MenuStubs == {"list_private", "list_groups", "list_channels", "settings"}

callback_menu_stub(data) ==
    /\ event' = Event(data, NoUser, NoChat, NoChat, None, 0)
    /\ effects' = <<Call("edit_text", data, None),
                    Call("callback_answer", None, None)>>
    /\ UNCHANGED <<db, fsm, tmp_files>>

callback_chat_actions(chat_id) ==
    /\ event' = Event("chat_actions", NoUser, NoChat, chat_id, None, 0)
    /\ effects' = IF get_chat(chats, chat_id) = {}
                  THEN <<Call("callback_answer", "chat_not_found", None)>>
                  ELSE <<Call("edit_text", "chat_actions", None),
                         Call("callback_answer", None, None)>>
    /\ UNCHANGED <<db, fsm, tmp_files>>

callback_chat_settings(chat_id) ==
    /\ event' = Event("chat_settings", NoUser, NoChat, chat_id, None, 0)
    /\ effects' = IF get_chat(chats, chat_id) = {}
                  THEN <<Call("callback_answer", "chat_not_found", None)>>
                  ELSE <<Call("edit_text",
                              IF is_transcription_enabled(chats, chat_id)
                              THEN "settings_enabled" ELSE "settings_disabled",
                              None),
                         Call("callback_answer", None, None)>>
    /\ UNCHANGED <<db, fsm, tmp_files>>

callback_toggle_transcription(chat_id) ==
    /\ event' = Event("toggle_transcription", NoUser, NoChat, chat_id, None,
                      IF is_transcription_enabled(chats, chat_id) THEN 1 ELSE 0)
    /\ IF get_chat(chats, chat_id) = {}
       THEN /\ effects' = <<Call("callback_answer", "chat_not_found", None)>>
            /\ UNCHANGED chats
       ELSE LET current_state == is_transcription_enabled(chats, chat_id)
                new_state == ~current_state
            IN  /\ chats' = set_transcription_enabled(chats, chat_id, new_state)
                /\ effects' =
                     <<Call("edit_reply_markup",
                            IF new_state THEN "settings_enabled"
                            ELSE "settings_disabled", None),
                       Call("callback_answer",
                            IF new_state THEN "now_enabled" ELSE "now_disabled",
                            None)>>
    /\ UNCHANGED <<users, messages, business_connections, analysis_results,
                   fsm, tmp_files>>

\* The part of callback_analyze after the custom branch: the call of
\* analyze_messages and what follows it, for one outcome of the call.
fixed_attempt(user_id, analysis_type, chat_id, outcome) ==
    IF outcome.kind = "ok"
    THEN /\ Len(analysis_results) < MaxResults
         /\ analysis_results' =
                add_analysis_result(chat_id, user_id, analysis_type,
                                    outcome.text)
         /\ effects' = <<Call("edit_text", "analysing", None),
                         Call("analyze_messages", "returned", outcome.text),
                         Call("edit_text", titles(analysis_type), outcome.text),
                         Call("answer", "choose_action", None),
                         Call("callback_answer", None, None)>>
    \* analyze_messages raises: the exception leaves the handler
    ELSE /\ effects' = <<Call("edit_text", "analysing", None),
                         Call("analyze_messages", "raised", outcome.text)>>
         /\ UNCHANGED analysis_results

fixed_analysis(user_id, analysis_type, chat_id) ==
    IF get_chat_messages(chat_id, AnalysisLimit) = <<>>
    THEN /\ effects' = <<Call("callback_answer", "no_messages", None)>>
         /\ UNCHANGED analysis_results
    ELSE \E outcome \in AnalysisOutcomes :
            fixed_attempt(user_id, analysis_type, chat_id, outcome)

callback_analyze(user_id, ctx_chat_id, analysis_type, chat_id) ==
    \* the chat of the update matters to the custom branch alone
    /\ event' = Event("analyze", user_id,
                      IF analysis_type = "custom" THEN ctx_chat_id ELSE NoChat,
                      chat_id, analysis_type,
                      IF analysis_type = "custom"
                      THEN get_data(StorageKey(ctx_chat_id, user_id)) ELSE 0)
    /\ IF analysis_type = "custom"
       THEN /\ fsm' = set_waiting(StorageKey(ctx_chat_id, user_id), chat_id)
            /\ effects' = <<Call("answer", "ask_question", None),
                            Call("callback_answer", None, None)>>
            /\ UNCHANGED analysis_results
       ELSE /\ fixed_analysis(user_id, analysis_type, chat_id)
            /\ UNCHANGED fsm
    /\ UNCHANGED <<users, chats, messages, business_connections, tmp_files>>

(***************************************************************************)
(* bot.py: Telegram Business handlers                                      *)
(***************************************************************************)
\* business_connection.user_chat_id is the private chat of the connecting
\* user with the bot, which has the user's id.
handle_business_connection(connection_id, user_id, is_enabled) ==
    /\ business_connections' =
          IF is_enabled
          THEN add_business_connection(connection_id, user_id, user_id)
          ELSE remove_business_connection(connection_id)
    /\ event' = Event("business_connection", user_id, NoChat, NoChat,
                      connection_id, IF is_enabled THEN 1 ELSE 0)
    /\ effects' = <<>>
    /\ UNCHANGED <<users, chats, messages, analysis_results, fsm, tmp_files>>

\* message.from_user.id if message.from_user else 0
from_user_id(from_user) == IF from_user = NoUser THEN 0 ELSE from_user

\* The try block of handle_business_voice and what its except clause does.
business_voice_attempt(connection_id, user_id, chat_id, file_id, date, outcome) ==
    CASE outcome.kind = "download_failed" ->
            /\ effects' = <<Call("get_file", file_id, None),
                            Relay(connection_id, "voice_error", outcome.text)>>
            /\ UNCHANGED <<messages, tmp_files>>
      [] outcome.kind = "transcribe_failed" ->
            /\ tmp_files' = tmp_files \cup {voice_path(file_id)}
            /\ effects' = <<Call("get_file", file_id, None),
                            Call("download_file", file_id, None),
                            Call("transcribe_audio", "raised", outcome.text),
                            Relay(connection_id, "voice_error", outcome.text)>>
            /\ UNCHANGED messages
      [] OTHER ->
            /\ Appended(messages) < MaxMessages
            /\ tmp_files' = tmp_files \ {voice_path(file_id)}
            /\ messages' = add_message(chat_id, user_id, None, date, TRUE,
                                       outcome.text)
            /\ effects' = <<Call("get_file", file_id, None),
                            Call("download_file", file_id, None),
                            Call("transcribe_audio", "returned", outcome.text),
                            Call("remove", file_id, None),
                            Relay(connection_id, "transcript", outcome.text)>>

business_voice_try(connection_id, user_id, chat_id, file_id, date) ==
    \E outcome \in VoiceOutcomes :
        business_voice_attempt(connection_id, user_id, chat_id, file_id, date,
                               outcome)

\* connection_id = None models an update without business_connection_id.
handle_business_voice(connection_id, from_user, chat_id, file_id, date) ==
    /\ event' = Event("business_voice", from_user, chat_id, NoChat,
                      connection_id, 0)
    /\ IF connection_id = None \/ get_business_connection(connection_id) = {}
       THEN /\ effects' = <<>>
            /\ UNCHANGED <<chats, messages, tmp_files>>
       ELSE IF ~is_transcription_enabled(chats, chat_id)
       THEN /\ Appended(messages) < MaxMessages
            /\ messages' = add_message(chat_id, from_user_id(from_user), None,
                                       date, TRUE, None)
            /\ effects' = <<>>
            /\ UNCHANGED <<chats, tmp_files>>
       ELSE /\ chats' = add_chat(chats, chat_id, "business")
            /\ business_voice_try(connection_id, from_user_id(from_user),
                                  chat_id, file_id, date)
    /\ UNCHANGED <<users, business_connections, analysis_results, fsm>>

handle_business_text(connection_id, from_user, chat_id, text, date) ==
    /\ event' = Event("business_text", from_user, chat_id, NoChat,
                      connection_id, 0)
    /\ effects' = <<>>
    /\ IF connection_id = None \/ get_business_connection(connection_id) = {}
       THEN UNCHANGED <<chats, messages>>
       ELSE /\ Appended(messages) < MaxMessages
            /\ chats' = add_chat(chats, chat_id, "business")
            /\ messages' = add_message(chat_id, from_user_id(from_user), text,
                                       date, FALSE, None)
    /\ UNCHANGED <<users, business_connections, analysis_results, fsm,
                   tmp_files>>

(***************************************************************************)
(* The dispatcher: the state after main() connected (empty tables, empty   *)
(* storage) and one update handled per step (a handler that runs to its    *)
(* end before the next update is taken starts no task that stays).         *)
(***************************************************************************)
Init ==
    /\ users = {}
    /\ chats = {}
    /\ messages = <<>>
    /\ business_connections = {}
    /\ analysis_results = <<>>
    /\ fsm = [key \in Contexts |-> Cleared]
    /\ tmp_files = {}
    /\ event = Event("none", NoUser, NoChat, NoChat, None, 0)
    /\ effects = <<>>
    /\ tasks = <<>>

\* A business chat is the private chat of the business account with a
\* customer and has the customer's id: chat 1, written in by user 1 or
\* carrying no from_user at all.
BusinessChats == {1}
BusinessSenders == {1, NoUser}
\* A connection id belongs to one business account.
Owner(connection_id) == 2

Start == \E cu \in Contexts : cmd_start(cu[2], cu[1]) /\ UNCHANGED tasks
Menu == \E cu \in Contexts : cmd_menu(cu[2], cu[1]) /\ UNCHANGED tasks
Voice ==
    \E cu \in Contexts, f \in FileIds, d \in Dates :
        handle_voice(cu[2], cu[1], f, d) /\ UNCHANGED tasks
Text ==
    \E cu \in Contexts, t \in Texts, d \in Dates :
        handle_text(cu[2], cu[1], t, d) /\ UNCHANGED tasks
BackToMenu == \E cu \in Contexts : callback_back_to_menu(cu[2], cu[1]) /\ UNCHANGED tasks
MenuStub == \E data \in MenuStubs : callback_menu_stub(data) /\ UNCHANGED tasks
ChatActions == \E c \in ChatIds : callback_chat_actions(c) /\ UNCHANGED tasks
ChatSettings == \E c \in ChatIds : callback_chat_settings(c) /\ UNCHANGED tasks
Toggle == \E c \in ChatIds : callback_toggle_transcription(c) /\ UNCHANGED tasks
Analyze ==
    \E cu \in Contexts, a \in AnalysisTypes, c \in ChatIds :
        callback_analyze(cu[2], cu[1], a, c) /\ UNCHANGED tasks
BusinessConnection ==
    \E k \in ConnIds, b \in BOOLEAN :
        handle_business_connection(k, Owner(k), b) /\ UNCHANGED tasks
BusinessVoice ==
    \E k \in ConnIds \cup {None}, u \in BusinessSenders, c \in BusinessChats,
       f \in FileIds, d \in Dates :
        handle_business_voice(k, u, c, f, d) /\ UNCHANGED tasks
BusinessText ==
    \E k \in ConnIds \cup {None}, u \in BusinessSenders, c \in BusinessChats,
       t \in Texts, d \in Dates :
        handle_business_text(k, u, c, t, d) /\ UNCHANGED tasks

\* Every update the dispatcher routes.
Next ==
    \/ Start \/ Menu \/ Voice \/ Text
    \/ BackToMenu \/ MenuStub \/ ChatActions \/ ChatSettings \/ Toggle
    \/ Analyze
    \/ BusinessConnection \/ BusinessVoice \/ BusinessText

Spec == Init /\ [][Next]_vars

\* The updates that write users, chats, messages, business_connections and
\* the temporary files: commands, messages, the transcription toggle and
\* the business updates (no analysis is requested).
NextMessages ==
    \/ Start \/ Voice \/ Text \/ Toggle
    \/ BusinessConnection \/ BusinessVoice \/ BusinessText

SpecMessages == Init /\ [][NextMessages]_vars

\* The updates of the analysis conversation: commands, text messages, the
\* analysis buttons and the way back to the menu.
NextAnalysis ==
    \/ Start \/ Menu \/ Text \/ BackToMenu \/ Analyze

SpecAnalysis == Init /\ [][NextAnalysis]_vars

\* A database with history: both users sent /start, and group chat 2 holds
\* a full page of texts of user 2, all of one date; the storage is empty.
HistoryRow ==
    [chat_id |-> 2, user_id |-> 2, message_text |-> "what did we discuss?",
     message_date |-> 2, is_voice |-> FALSE, transcription |-> None]

InitHistory ==
    /\ users = {[user_id |-> u, is_authorized |-> TRUE] : u \in UserIds}
    /\ chats = {[chat_id |-> 2, chat_type |-> ChatType(2),
                 transcription_enabled |-> TRUE]}
    /\ messages = [i \in 1..AnalysisLimit |-> HistoryRow]
    /\ business_connections = {}
    /\ analysis_results = <<>>
    /\ fsm = [key \in Contexts |-> Cleared]
    /\ tmp_files = {}
    /\ event = Event("none", NoUser, NoChat, NoChat, None, 0)
    /\ effects = <<>>
    /\ tasks = <<>>

\* Updates that carry a date before or after the history's: Telegram's
\* message.date is the time of sending, not of handling.
HistoryDates == {1, 3}
HistoryVoice ==
    \E cu \in Contexts, f \in FileIds, d \in HistoryDates :
        handle_voice(cu[2], cu[1], f, d) /\ UNCHANGED tasks
HistoryText ==
    \E cu \in Contexts, t \in Texts, d \in HistoryDates :
        handle_text(cu[2], cu[1], t, d) /\ UNCHANGED tasks

NextHistory == HistoryVoice \/ HistoryText

SpecHistory == InitHistory /\ [][NextHistory]_vars

(***************************************************************************)
(* Handlers that overlap.  dp.start_polling(bot) handles every update in   *)
(* an asyncio task of its own, so a handler suspended at an await is       *)
(* overtaken by the handlers of later updates.  A step runs one handler    *)
(* from one suspension point to the next one that matters here: a voice    *)
(* handler is suspended in transcribe_audio, a toggle between its read of  *)
(* the chat and its UPDATE.                                                *)
(***************************************************************************)
MaxUpdates == 3
OverlapFiles == {"f1", "f2"}

\* A handler started as a task: its update, the await it is suspended at
\* (pc), and the local it holds across that await (the flag a toggle read,
\* as 1 or 0).
Task(kind, pc, user_id, chat_id, file_id, arg, date, local) ==
    [kind |-> kind, pc |-> pc, user_id |-> user_id, chat_id |-> chat_id,
     file_id |-> file_id, arg |-> arg, date |-> date, local |-> local]

\* handle_voice up to `await transcribe_audio(voice_path)`
voice_begin(user_id, chat_id, file_id, date) ==
    LET task(pc) == Task("voice", pc, user_id, chat_id, file_id, None, date, 0)
    IN  /\ event' = Event("voice", user_id, chat_id, NoChat, None, 0)
        /\ IF ~is_user_authorized(user_id)
           THEN /\ effects' = <<Call("answer", "not_authorized", None)>>
                /\ tasks' = Append(tasks, task("done"))
                /\ UNCHANGED <<chats, messages, tmp_files>>
           ELSE IF ~is_transcription_enabled(chats, chat_id)
           THEN /\ Appended(messages) < MaxMessages
                /\ messages' = add_message(chat_id, user_id, None, date, TRUE,
                                           None)
                /\ effects' = <<>>
                /\ tasks' = Append(tasks, task("done"))
                /\ UNCHANGED <<chats, tmp_files>>
           ELSE /\ chats' = add_chat(chats, chat_id, ChatType(chat_id))
                /\ UNCHANGED messages
                /\ \/ \E e \in Errors :
                        /\ effects' = <<Call("get_file", file_id, None),
                                        Call("answer", "voice_error", e)>>
                        /\ tasks' = Append(tasks, task("done"))
                        /\ UNCHANGED tmp_files
                   \/ /\ tmp_files' = tmp_files \cup {voice_path(file_id)}
                      /\ effects' = <<Call("get_file", file_id, None),
                                      Call("download_file", file_id, None),
                                      Call("answer", "transcribing", None)>>
                      /\ tasks' = Append(tasks, task("transcribing"))
        /\ UNCHANGED <<users, business_connections, analysis_results, fsm>>

\* handle_voice from the return (or the exception) of transcribe_audio on
voice_resume(n, outcome) ==
    LET t == tasks[n]
    IN  /\ t.kind = "voice"
        /\ t.pc = "transcribing"
        /\ event' = Event("voice", t.user_id, t.chat_id, NoChat, None, 0)
        /\ tasks' = [tasks EXCEPT ![n].pc = "done"]
        /\ IF outcome.kind = "ok"
           THEN /\ Appended(messages) < MaxMessages
                /\ tmp_files' = tmp_files \ {voice_path(t.file_id)}
                /\ messages' = add_message(t.chat_id, t.user_id, None, t.date,
                                           TRUE, outcome.text)
                /\ effects' =
                     <<Call("transcribe_audio", "returned", outcome.text),
                       Call("remove", t.file_id, None),
                       Call("edit_text", "transcript", outcome.text)>>
           ELSE /\ effects' =
                     <<Call("transcribe_audio", "raised", outcome.text),
                       Call("answer", "voice_error", outcome.text)>>
                /\ UNCHANGED <<messages, tmp_files>>
        /\ UNCHANGED <<users, chats, business_connections, analysis_results,
                       fsm>>

\* handle_business_voice up to `await transcribe_audio(voice_path)`
business_voice_begin(connection_id, from_user, chat_id, file_id, date) ==
    LET task(pc) == Task("business_voice", pc, from_user_id(from_user),
                         chat_id, file_id, connection_id, date, 0)
    IN  /\ event' = Event("business_voice", from_user, chat_id, NoChat,
                          connection_id, 0)
        /\ IF connection_id = None
                \/ get_business_connection(connection_id) = {}
           THEN /\ effects' = <<>>
                /\ tasks' = Append(tasks, task("done"))
                /\ UNCHANGED <<chats, messages, tmp_files>>
           ELSE IF ~is_transcription_enabled(chats, chat_id)
           THEN /\ Appended(messages) < MaxMessages
                /\ messages' = add_message(chat_id, from_user_id(from_user),
                                           None, date, TRUE, None)
                /\ effects' = <<>>
                /\ tasks' = Append(tasks, task("done"))
                /\ UNCHANGED <<chats, tmp_files>>
           ELSE /\ chats' = add_chat(chats, chat_id, "business")
                /\ UNCHANGED messages
                /\ \/ \E e \in Errors :
                        /\ effects' = <<Call("get_file", file_id, None),
                                        Relay(connection_id, "voice_error", e)>>
                        /\ tasks' = Append(tasks, task("done"))
                        /\ UNCHANGED tmp_files
                   \/ /\ tmp_files' = tmp_files \cup {voice_path(file_id)}
                      /\ effects' = <<Call("get_file", file_id, None),
                                      Call("download_file", file_id, None)>>
                      /\ tasks' = Append(tasks, task("transcribing"))
        /\ UNCHANGED <<users, business_connections, analysis_results, fsm>>

\* handle_business_voice from the return (or the exception) of
\* transcribe_audio on
business_voice_resume(n, outcome) ==
    LET t == tasks[n]
    IN  /\ t.kind = "business_voice"
        /\ t.pc = "transcribing"
        /\ event' = Event("business_voice", t.user_id, t.chat_id, NoChat,
                          t.arg, 0)
        /\ tasks' = [tasks EXCEPT ![n].pc = "done"]
        /\ IF outcome.kind = "ok"
           THEN /\ Appended(messages) < MaxMessages
                /\ tmp_files' = tmp_files \ {voice_path(t.file_id)}
                /\ messages' = add_message(t.chat_id, t.user_id, None, t.date,
                                           TRUE, outcome.text)
                /\ effects' =
                     <<Call("transcribe_audio", "returned", outcome.text),
                       Call("remove", t.file_id, None),
                       Relay(t.arg, "transcript", outcome.text)>>
           ELSE /\ effects' =
                     <<Call("transcribe_audio", "raised", outcome.text),
                       Relay(t.arg, "voice_error", outcome.text)>>
                /\ UNCHANGED <<messages, tmp_files>>
        /\ UNCHANGED <<users, chats, business_connections, analysis_results,
                       fsm>>

\* callback_toggle_transcription up to `await db.set_transcription_enabled`:
\* the handler holds the flag it read in current_state.
toggle_begin(chat_id) ==
    LET current_state == is_transcription_enabled(chats, chat_id)
        task(pc) == Task("toggle_transcription", pc, NoUser, chat_id, None,
                         None, 0, IF current_state THEN 1 ELSE 0)
    IN  /\ event' = Event("toggle_transcription", NoUser, NoChat, chat_id,
                          None, IF current_state THEN 1 ELSE 0)
        /\ IF get_chat(chats, chat_id) = {}
           THEN /\ effects' =
                     <<Call("callback_answer", "chat_not_found", None)>>
                /\ tasks' = Append(tasks, task("done"))
           ELSE /\ effects' = <<>>
                /\ tasks' = Append(tasks, task("read"))
        /\ UNCHANGED <<db, fsm, tmp_files>>

\* callback_toggle_transcription from its UPDATE on: it writes the negation
\* of the flag it read.
toggle_resume(n) ==
    LET t == tasks[n]
        new_state == ~(t.local = 1)
    IN  /\ t.kind = "toggle_transcription"
        /\ t.pc = "read"
        /\ event' = Event("toggle_transcription", NoUser, NoChat, t.chat_id,
                          None, t.local)
        /\ tasks' = [tasks EXCEPT ![n].pc = "done"]
        /\ chats' = set_transcription_enabled(chats, t.chat_id, new_state)
        /\ effects' =
             <<Call("edit_reply_markup",
                    IF new_state THEN "settings_enabled"
                    ELSE "settings_disabled", None),
               Call("callback_answer",
                    IF new_state THEN "now_enabled" ELSE "now_disabled",
                    None)>>
        /\ UNCHANGED <<users, messages, business_connections,
                       analysis_results, fsm, tmp_files>>

\* message.date of the next update: Telegram stamps the updates of the
\* polling stream in the order it delivers them.
ArrivalDate == Len(tasks) + 1

\* What the await of transcribe_audio ends in.
TranscribeOutcomes == {o \in VoiceOutcomes : o.kind # "download_failed"}

VoiceArrives ==
    /\ Len(tasks) < MaxUpdates
    /\ \E cu \in Contexts, f \in OverlapFiles :
           voice_begin(cu[2], cu[1], f, ArrivalDate)
VoiceResumes ==
    \E n \in 1..Len(tasks), outcome \in TranscribeOutcomes :
        voice_resume(n, outcome)
BusinessVoiceArrives ==
    /\ Len(tasks) < MaxUpdates
    /\ \E k \in ConnIds \cup {None}, u \in BusinessSenders,
          c \in BusinessChats, f \in OverlapFiles :
           business_voice_begin(k, u, c, f, ArrivalDate)
BusinessVoiceResumes ==
    \E n \in 1..Len(tasks), outcome \in TranscribeOutcomes :
        business_voice_resume(n, outcome)
\* handle_text awaits the database alone and is taken in one step.
TextArrives ==
    /\ Len(tasks) < MaxUpdates
    /\ \E cu \in Contexts, t \in Texts :
           /\ handle_text(cu[2], cu[1], t, ArrivalDate)
           /\ tasks' = Append(tasks, Task("text", "done", cu[2], cu[1], None,
                                          None, ArrivalDate, 0))
ToggleArrives ==
    /\ Len(tasks) < MaxUpdates
    /\ \E c \in ChatIds : toggle_begin(c)
ToggleResumes == \E n \in 1..Len(tasks) : toggle_resume(n)

\* The state the overlapping updates arrive in: user 1 sent /start, a voice
\* message of user 1 in chat 1 failed to download (which left the Chat row),
\* and the business connection was enabled; no handler is in flight.
InitOverlap ==
    /\ users = {[user_id |-> 1, is_authorized |-> TRUE]}
    /\ chats = {[chat_id |-> 1, chat_type |-> ChatType(1),
                 transcription_enabled |-> TRUE]}
    /\ messages = <<>>
    /\ business_connections =
          {[connection_id |-> k, user_id |-> Owner(k),
            user_chat_id |-> Owner(k), is_active |-> TRUE] : k \in ConnIds}
    /\ analysis_results = <<>>
    /\ fsm = [key \in Contexts |-> Cleared]
    /\ tmp_files = {}
    /\ event = Event("business_connection", 2, NoChat, NoChat, "biz1", 1)
    /\ effects = <<>>
    /\ tasks = <<>>

NextOverlap ==
    \/ VoiceArrives
    \/ VoiceResumes
    \/ BusinessVoiceArrives
    \/ BusinessVoiceResumes
    \/ TextArrives
    \/ ToggleArrives
    \/ ToggleResumes

SpecOverlap == InitOverlap /\ [][NextOverlap]_vars

(***************************************************************************)
(* Vocabulary of the properties.  They read the tables directly, not        *)
(* through the operations of database.py.                                  *)
(***************************************************************************)
Authorized(user_id) ==
    \E r \in users : r.user_id = user_id /\ r.is_authorized

HasChatRow(chat_id) == \E r \in chats : r.chat_id = chat_id

\* The chat has a row and its transcription_enabled is FALSE.
FlagFalse(chat_id) ==
    \E r \in chats : r.chat_id = chat_id /\ ~r.transcription_enabled

FlagTrue(table, chat_id) ==
    \E r \in table : r.chat_id = chat_id /\ r.transcription_enabled

ActiveConnection(connection_id) ==
    \E r \in business_connections :
        r.connection_id = connection_id /\ r.is_active

HasMessages(chat_id) ==
    \E i \in 1..Len(messages) : messages[i].chat_id = chat_id

Last(seq) == seq[Len(seq)]

\* `after` is `before` with exactly one row appended.
AppendedOne(before, after) ==
    /\ Len(after) = Len(before) + 1
    /\ SubSeq(after, 1, Len(before)) = before

\* The handler called service `op` (at least once).
Called(calls, op) == \E i \in 1..Len(calls) : calls[i].op = op

\* The handler called service `op` and the call returned `text`.
Returned(calls, op, text) ==
    \E i \in 1..Len(calls) :
        calls[i].op = op /\ calls[i].tag = "returned" /\ calls[i].body = text

\* The texts the handler sent, edited or relayed with the fixed part `tag`.
Renders(calls, tag) ==
    {i \in 1..Len(calls) :
        /\ calls[i].op \in {"answer", "edit_text", "send_message"}
        /\ calls[i].tag = tag}

Services == {"transcribe_audio", "analyze_messages", "custom_analysis"}

Idle(storage, key) == storage[key].state = None

(***************************************************************************)
(* C1.  Voice events in a chat whose transcription flag is FALSE.          *)
(***************************************************************************)
\* What the short-circuit does in a step: no transcription call, and one
\* Message appended for the chat with is_voice and no transcript.
C1_ShortCircuit ==
    /\ ~Called(effects', "transcribe_audio")
    /\ AppendedOne(messages, messages')
    /\ Last(messages').chat_id = event'.chat_id
    /\ Last(messages').is_voice
    /\ Last(messages').transcription = None

\* C1 as stated: for every chat whose transcription flag is false, handling
\* a voice event (handle_voice or handle_business_voice) never invokes the
\* transcription service and always appends one Message with is_voice and no
\* transcript.
C1_Original ==
    [][(/\ event'.kind \in {"voice", "business_voice"}
        /\ FlagFalse(event'.chat_id))
       => C1_ShortCircuit]_vars

\* C1 amended: the same for every voice event that passes its handler's gate:
\* on the direct path the sender is authorized, on the business path the
\* update names an active connection.  (A voice event stopped at the gate
\* appends nothing.)
C1_PastTheGate ==
    [][(/\ FlagFalse(event'.chat_id)
        /\ \/ event'.kind = "voice" /\ Authorized(event'.user_id)
           \/ event'.kind = "business_voice" /\ ActiveConnection(event'.arg))
       => C1_ShortCircuit]_vars

\* An authorized user's voice note was handled in a chat with the flag off.
C1_Witness ==
    /\ event.kind = "voice"
    /\ Authorized(event.user_id)
    /\ FlagFalse(event.chat_id)
    /\ effects = <<>>
    /\ messages # <<>>
    /\ Last(messages).chat_id = event.chat_id
    /\ Last(messages).is_voice
    /\ Last(messages).transcription = None

(***************************************************************************)
(* C2.  The pending custom query.                                          *)
(***************************************************************************)
PendingKeys(user_id) ==
    {key \in Contexts : key[2] = user_id /\ fsm[key].state = Waiting}

C3_TwoToggles ==
    [][(/\ event.kind = "toggle_transcription"
        /\ event'.kind = "toggle_transcription"
        /\ event'.target = event.target
        /\ HasChatRow(event.target))
       => (FlagTrue(chats', event.target) <=> event.prior = 1)]_vars

\* A toggle read FALSE (an earlier toggle of this chat wrote it: rows start
\* TRUE) and the flag is TRUE again.
C3_Witness ==
    /\ event.kind = "toggle_transcription"
    /\ HasChatRow(event.target)
    /\ event.prior = 0
    /\ FlagTrue(chats, event.target)

(***************************************************************************)
(* C4.  set_transcription_enabled followed by is_transcription_enabled.    *)
(***************************************************************************)
\* C4 as stated: for every chat id, known or unseen, and every boolean b,
\* set(chat, b) followed by is(chat) returns b.
C4_Original ==
    \A c \in ChatIds, b \in BOOLEAN :
        is_transcription_enabled(set_transcription_enabled(chats, c, b), c) = b

\* C4 amended: for every chat that has a Chat row and every boolean b,
\* set(chat, b) followed by is(chat) returns b; for a chat without a row
\* set changes nothing (it is an UPDATE, it inserts no row) and is(chat)
\* returns true; set is idempotent.
C4_KnownChats ==
    \A c \in ChatIds, b \in BOOLEAN :
        LET after == set_transcription_enabled(chats, c, b)
        IN  /\ set_transcription_enabled(after, c, b) = after
            /\ IF HasChatRow(c)
               THEN is_transcription_enabled(after, c) = b
               ELSE after = chats /\ is_transcription_enabled(after, c)

\* The bot has written FALSE to an existing chat's flag.
C4_Witness ==
    /\ event.kind = "toggle_transcription"
    /\ FlagFalse(event.target)
    /\ \E c \in ChatIds : ~HasChatRow(c)

(***************************************************************************)
(* C5.  Analysis of a chat without messages.                               *)
(***************************************************************************)
\* C5: for every chat with zero stored Messages, an analysis request in any
\* mode (a fixed mode, or a custom query consumed from the pending state)
\* invokes no analysis service and appends no AnalysisResult row; on the
\* custom path the user is Idle afterwards.
C5_NoHistory ==
    [][LET key == StorageKey(event'.chat_id, event'.user_id)
       IN  /\ (/\ event'.kind = "analyze"
               /\ event'.arg # "custom"
               /\ ~HasMessages(event'.target))
                => /\ \A op \in Services : ~Called(effects', op)
                   /\ analysis_results' = analysis_results
           /\ (/\ event'.kind = "text"
               /\ fsm[key].state = Waiting
               /\ ~HasMessages(fsm[key].chat_id))
                => /\ \A op \in Services : ~Called(effects', op)
                   /\ analysis_results' = analysis_results
                   /\ Idle(fsm', key)]_vars

\* A pending query was consumed for a chat without messages while another
\* chat has some: nothing was analysed and the key is idle.
C5_Witness ==
    /\ event.kind = "text"
    /\ event.prior # NoChat
    /\ ~HasMessages(event.prior)
    /\ messages # <<>>
    /\ Renders(effects, "no_messages") # {}
    /\ Idle(fsm, StorageKey(event.chat_id, event.user_id))
    /\ analysis_results = <<>>

(***************************************************************************)
(* C6.  A text of an unauthorized user in an unseen chat.                  *)
(***************************************************************************)
\* C6: when a user who is not authorized sends a text message on the direct
\* path to a chat that has no Chat row, handling the event creates no Chat
\* row and no Message row.
C6_NoRows ==
    [][(/\ event'.kind = "text"
        /\ ~Authorized(event'.user_id)
        /\ ~HasChatRow(event'.chat_id))
       => chats' = chats /\ messages' = messages]_vars

\* Such a text was handled, while the tables are able to take rows (another
\* user's message is stored).
C6_Witness ==
    /\ event.kind = "text"
    /\ ~Authorized(event.user_id)
    /\ ~HasChatRow(event.chat_id)
    /\ ~HasMessages(event.chat_id)
    /\ Len(messages) = 1

(***************************************************************************)
(* C7.  Direct events of unauthorized users.                               *)
(***************************************************************************)
\* C7 as stated: on the direct path, text and voice events from a user who
\* is not authorized are silently dropped (no user-visible output, no
\* transcription or analysis call, no row of any kind persisted); /start is
\* exempt and sets authorized=true unconditionally.
C7_SilentDrop ==
    [][/\ (event'.kind \in {"text", "voice"} /\ ~Authorized(event'.user_id))
            => effects' = <<>> /\ db' = db
       /\ event'.kind = "cmd_start"
            => [user_id |-> event'.user_id, is_authorized |-> TRUE] \in users'
      ]_vars

(***************************************************************************)
(* C8.  /start, then a voice note that is transcribed.                     *)
(***************************************************************************)
\* C8: after /start (the user is authorized), a voice note in a chat with
\* transcription enabled whose transcription returns T appends exactly one
\* Message, with is_voice and transcript T, and sends exactly one transcript
\* render, which contains T.
C8_VoiceTranscribed ==
    [][\A T \in Transcripts :
        (/\ event'.kind = "voice"
         /\ Authorized(event'.user_id)
         /\ ~FlagFalse(event'.chat_id)
         /\ Returned(effects', "transcribe_audio", T))
        => /\ AppendedOne(messages, messages')
           /\ Last(messages').chat_id = event'.chat_id
           /\ Last(messages').user_id = event'.user_id
           /\ Last(messages').is_voice
           /\ Last(messages').message_text = None
           /\ Last(messages').transcription = T
           /\ Cardinality(Renders(effects', "transcript")) = 1
           /\ \A i \in Renders(effects', "transcript") : effects'[i].body = T
      ]_vars

\* The first Message of the database is the transcribed voice note of a user
\* who sent /start.
C8_Witness ==
    /\ event.kind = "voice"
    /\ Authorized(event.user_id)
    /\ Returned(effects, "transcribe_audio", "hello world")
    /\ Len(messages) = 1
    /\ messages[1].is_voice
    /\ messages[1].transcription = "hello world"
    /\ Cardinality(Renders(effects, "transcript")) = 1

(***************************************************************************)
(* C9.  A custom query that is answered.                                   *)
(***************************************************************************)
\* C9: when a user has selected custom analysis for chat C and then sends a
\* text while C has at least one Message and the analysis service succeeds,
\* exactly one AnalysisResult row is appended, with analysis_type "custom",
\* chat C and that user, and the user's state is Idle afterwards.
C9_CustomAnswered ==
    [][\A R \in AnalysisTexts :
        LET key == StorageKey(event'.chat_id, event'.user_id)
        IN  (/\ event'.kind = "text"
             /\ fsm[key].state = Waiting
             /\ HasMessages(fsm[key].chat_id)
             /\ Returned(effects', "custom_analysis", R))
            => /\ analysis_results' =
                    Append(analysis_results,
                           [chat_id |-> fsm[key].chat_id,
                            user_id |-> event'.user_id,
                            analysis_type |-> "custom",
                            result_text |-> R])
               /\ Idle(fsm', key)]_vars

\* A pending query was answered: its row is stored, the key is idle.
C9_Witness ==
    /\ event.kind = "text"
    /\ event.prior # NoChat
    /\ HasMessages(event.prior)
    /\ Returned(effects, "custom_analysis", "analysis")
    /\ Len(analysis_results) = 1
    /\ analysis_results[1].analysis_type = "custom"
    /\ analysis_results[1].chat_id = event.prior
    /\ analysis_results[1].user_id = event.user_id
    /\ Idle(fsm, StorageKey(event.chat_id, event.user_id))

(***************************************************************************)
(* C10.  Business connections are soft-deleted.                            *)
(***************************************************************************)
\* C10: a lifecycle event with is_enabled=false for a previously active
\* connection sets its active flag to false and keeps the row; no lifecycle
\* event ever removes a row of business_connections.
C10_SoftDelete ==
    [][/\ \A r \in business_connections :
              \E q \in business_connections' :
                  q.connection_id = r.connection_id
       /\ (/\ event'.kind = "business_connection"
           /\ event'.prior = 0
           /\ ActiveConnection(event'.arg))
            => /\ \E q \in business_connections' :
                      q.connection_id = event'.arg /\ ~q.is_active
               /\ \A q \in business_connections' :
                      q.connection_id = event'.arg => ~q.is_active]_vars

\* A connection was disabled and its row is still there, inactive.
C10_Witness ==
    /\ event.kind = "business_connection"
    /\ event.prior = 0
    /\ \E r \in business_connections :
            r.connection_id = event.arg /\ ~r.is_active

(***************************************************************************)
(* C11.  The temporary file of a voice event.                              *)
(***************************************************************************)
\* The files the handler downloaded in this step.
Downloaded(calls) ==
    {calls[i].tag : i \in {j \in 1..Len(calls) : calls[j].op = "download_file"}}

\* C11 as stated: whenever a voice handler (direct or business) has
\* downloaded the attachment to its temporary file, that file has been
\* deleted by the time the handler returns, on every exit path (successful
\* transcription, transcription failure, any error after the download).
C11_TempFileDeleted ==
    [][event'.kind \in {"voice", "business_voice"}
       => \A f \in Downloaded(effects') : voice_path(f) \notin tmp_files']_vars

(***************************************************************************)
(* C12.  One Message per voice event.                                      *)
(***************************************************************************)
\* The voice event of the step passed its handler's gate.
PastTheGate ==
    \/ event'.kind = "voice" /\ Authorized(event'.user_id)
    \/ event'.kind = "business_voice" /\ ActiveConnection(event'.arg)

\* The transcription call of the step raised.
TranscriptionFailed(calls) ==
    \E i \in 1..Len(calls) :
        calls[i].op = "transcribe_audio" /\ calls[i].tag = "raised"

\* C12 as stated: every inbound voice event that passes the authorization /
\* active-connection gate appends exactly one Message row with is_voice, also
\* when transcription fails: the row of a failed transcription has no
\* transcript, and the error text is not stored in it.
C12_OneRowPerVoice ==
    [][PastTheGate
       => /\ AppendedOne(messages, messages')
          /\ Last(messages').chat_id = event'.chat_id
          /\ Last(messages').is_voice
          /\ TranscriptionFailed(effects')
                => /\ Last(messages').transcription = None
                   /\ Last(messages').message_text = None]_vars

(***************************************************************************)
(* C13.  A voice event whose download or transcription fails.              *)
(***************************************************************************)
\* The handler ended by an exception: its last call raised and nothing
\* caught it.
Escapes(calls) == calls # <<>> /\ Last(calls).tag = "raised"

\* The voice event of the step passed the gate in a chat with transcription
\* enabled and got no transcript: its download or its transcription failed.
VoiceFailed ==
    /\ PastTheGate
    /\ ~FlagFalse(event'.chat_id)
    /\ \A T \in Transcripts : ~Returned(effects', "transcribe_audio", T)

\* The error notices of the step: what they carry and how they were sent.
ErrorNotices(calls) == {calls[i] : i \in Renders(calls, "voice_error")}

\* C13: when the download or the transcription call of a voice event fails,
\* the handler sends one error notice carrying the failure description (what
\* the failed call raised), by a plain answer on the direct path and by the
\* relay with the update's connection id (as a reply to the update's message)
\* on the business path; the failure does not leave the handler (the notice
\* is its last call) and writes no row but the chat's; and the event handled
\* next is processed normally: a voice note that is transcribed is stored
\* with its transcript, a text is stored.
C13_FailureIsolated ==
    [][/\ VoiceFailed
            => /\ Cardinality(Renders(effects', "voice_error")) = 1
               /\ Last(effects') \in ErrorNotices(effects')
               /\ ~Escapes(effects')
               /\ \A n \in ErrorNotices(effects') :
                    /\ n.body \in Errors
                    /\ \A i \in 1..Len(effects') :
                          effects'[i].tag = "raised" => n.body = effects'[i].body
                    /\ event'.kind = "voice"
                          => n.op = "answer" /\ n.via = None
                    /\ event'.kind = "business_voice"
                          => n.op = "send_message" /\ n.via = event'.arg
               /\ <<users', messages', business_connections',
                    analysis_results', fsm'>>
                    = <<users, messages, business_connections,
                        analysis_results, fsm>>
       /\ (/\ ErrorNotices(effects) # {}
           /\ PastTheGate
           /\ ~FlagFalse(event'.chat_id))
            => \/ VoiceFailed
               \/ /\ AppendedOne(messages, messages')
                  /\ Returned(effects', "transcribe_audio",
                              Last(messages').transcription)
       /\ (/\ ErrorNotices(effects) # {}
           /\ event'.kind = "text"
           /\ Authorized(event'.user_id)
           /\ Idle(fsm, <<event'.chat_id, event'.user_id>>))
            => /\ AppendedOne(messages, messages')
               /\ ~Last(messages').is_voice]_vars

\* A business voice note was downloaded, its transcription raised, and the
\* error was relayed into the business chat with the connection id; the
\* Messages stored before are still there.
C13_Witness ==
    /\ event.kind = "business_voice"
    /\ ActiveConnection(event.arg)
    /\ TranscriptionFailed(effects)
    /\ Last(effects) = Relay(event.arg, "voice_error", "boom")
    /\ messages # <<>>

(***************************************************************************)
(* C14.  An analysis call that fails.                                      *)
(***************************************************************************)
\* The calls of the analysis service among the handler's calls.
AnalysisCalls(calls) ==
    {i \in 1..Len(calls) : calls[i].op \in {"analyze_messages", "custom_analysis"}}

\* C14 as stated: when the analysis service call fails (fixed mode or
\* custom), the failure is caught at the handler boundary and reported to the
\* requesting user as an error notice (a text sent or shown after the failed
\* call, carrying what it raised), the service is called exactly once for
\* that user action, and no AnalysisResult row is appended.
C14_Reported ==
    [][\A i \in AnalysisCalls(effects') :
         effects'[i].tag = "raised"
         => /\ ~Escapes(effects')
            /\ \E j \in (i + 1)..Len(effects') :
                  /\ effects'[j].op \in {"answer", "edit_text", "callback_answer"}
                  /\ effects'[j].body = effects'[i].body
            /\ Cardinality(AnalysisCalls(effects')) = 1
            /\ analysis_results' = analysis_results]_vars

(***************************************************************************)
(* C15.  Every Message belongs to a Chat.                                  *)
(***************************************************************************)
\* C15: in every reachable state, every stored Message's chat_id is the id of
\* a Chat row: no handler (text, voice with transcription enabled or
\* disabled, business text, business voice) appends a Message for a chat
\* that has no row at that moment.
C15_MessageHasChat ==
    \A i \in 1..Len(messages) : HasChatRow(messages[i].chat_id)

\* A voice note stored by the short-circuit (no add_chat on that path: the
\* chat's row is the one whose flag was switched off) next to a text.
C15_Witness ==
    /\ \E i \in 1..Len(messages) :
          /\ messages[i].is_voice
          /\ messages[i].transcription = None
          /\ FlagFalse(messages[i].chat_id)
    /\ \E i \in 1..Len(messages) : ~messages[i].is_voice

(***************************************************************************)
(* C16.  Every AnalysisResult belongs to a chat with history.              *)
(***************************************************************************)
\* C16: in every reachable state, every stored AnalysisResult row refers to
\* a chat that has at least one stored Message.
C16_ResultHasHistory ==
    \A i \in 1..Len(analysis_results) :
        HasMessages(analysis_results[i].chat_id)

\* A fixed-mode analysis is stored while another chat has no Message.
C16_Witness ==
    /\ analysis_results # <<>>
    /\ Last(analysis_results).analysis_type # "custom"
    /\ HasMessages(Last(analysis_results).chat_id)
    /\ \E c \in ChatIds : ~HasMessages(c)

(***************************************************************************)
(* C17.  A transcript persisted and fetched again.                         *)
(***************************************************************************)
\* The step appended a Message with a transcript.
PersistedTranscript ==
    /\ AppendedOne(messages, messages')
    /\ Last(messages').transcription \in Transcripts

\* The fetch of the row's chat after the step contains the row.
Fetched(row) ==
    \E c \in ChatIds :
        /\ c = row.chat_id
        /\ SelectSeq(get_chat_messages(c, AnalysisLimit)',
                     LAMBDA r : r = row) # <<>>

\* C17 as stated: after a Message with transcript T is persisted for chat C,
\* the next fetch of C's recent messages (get_chat_messages with the limit
\* of the analysis) contains that Message with transcript T unchanged,
\* whatever other Messages C already holds.
C17_Original ==
    [][PersistedTranscript
       => Fetched(Last(messages'))]_vars

\* The stored Messages of the chat that are as new as `row` or newer.
AsNew(row) ==
    {i \in 1..Len(messages) :
        /\ messages[i].chat_id = row.chat_id
        /\ messages[i].message_date >= row.message_date}

\* C17 amended: the same, provided fewer than 300 (the limit of the fetch) of
\* the Messages C already holds have a message_date equal to or later than
\* the new Message's; the fetch keeps the 300 newest rows by message_date,
\* so a Message older than 300 stored ones is not in it.
C17_WithinLimit ==
    [][(/\ PersistedTranscript
        /\ Cardinality(AsNew(Last(messages'))) < AnalysisLimit)
       => Fetched(Last(messages'))]_vars

\* A transcribed voice note was stored in a chat that held a full page of
\* older Messages, and the fetch returns it first.
C17_Witness ==
    /\ event.kind = "voice"
    /\ Len(messages) > AnalysisLimit
    /\ Last(messages).transcription = "hello world"
    /\ Cardinality({i \in 1..Len(messages) :
                        messages[i].chat_id = event.chat_id}) > AnalysisLimit
    /\ get_chat_messages(event.chat_id, AnalysisLimit)[1] = Last(messages)

(***************************************************************************)
(* C18.  Navigating to the main menu.                                      *)
(***************************************************************************)
\* The updates that show the main menu: the back button and /menu.
MenuKinds == {"back_to_menu", "cmd_menu"}

\* C18 as stated: when a user in AwaitingCustomQuery(C) navigates to the
\* main menu, the user's state becomes Idle and the pending query is
\* discarded: the next text that user sends is handled as an ordinary
\* message and triggers no analysis of C.
C18_MenuDiscards ==
    [][/\ event'.kind \in MenuKinds
            => Idle(fsm', <<event'.chat_id, event'.user_id>>)
       /\ (/\ event.kind \in MenuKinds
           /\ event'.kind = "text"
           /\ event'.user_id = event.user_id
           /\ event'.chat_id = event.chat_id)
            => /\ \A op \in Services : ~Called(effects', op)
               /\ Renders(effects', "no_messages") = {}
               /\ analysis_results' = analysis_results]_vars

(***************************************************************************)
(* C19.  A custom analysis that fails.                                     *)
(***************************************************************************)
\* The text of the step was consumed as a custom query (its key was
\* pending) and no AnalysisResult was stored.
CustomFailed ==
    /\ event'.kind = "text"
    /\ fsm[<<event'.chat_id, event'.user_id>>].state = Waiting
    /\ analysis_results' = analysis_results

\* C19: when a custom analysis fails because the analysis service call
\* fails, the pending state is left as it was, AwaitingCustomQuery(C) (the
\* next text is again consumed as a query for C); a failed custom analysis
\* clears the pending state only when the failure is empty history.
C19_PendingKept ==
    [][CustomFailed
       => LET key == <<event'.chat_id, event'.user_id>>
          IN  /\ (\E i \in AnalysisCalls(effects') : effects'[i].tag = "raised")
                    => /\ fsm' = fsm
                       /\ fsm'[key] = [state |-> Waiting,
                                       chat_id |-> event'.prior]
              /\ fsm'[key] # fsm[key]
                    => /\ ~HasMessages(fsm[key].chat_id)
                       /\ AnalysisCalls(effects') = {}
                       /\ Idle(fsm', key)]_vars

\* custom_analysis raised for a pending query and the key is still pending
\* the same chat.
C19_Witness ==
    /\ event.kind = "text"
    /\ event.prior # NoChat
    /\ HasMessages(event.prior)
    /\ effects # <<>>
    /\ Last(effects) = Call("custom_analysis", "raised", "boom")
    /\ fsm[<<event.chat_id, event.user_id>>] =
            [state |-> Waiting, chat_id |-> event.prior]

(***************************************************************************)
(* C20.  What the pending state is keyed by.                               *)
(***************************************************************************)
\* The text of the step was taken as a custom query: it was analysed or
\* refused for want of history.
Consumed(calls) ==
    Called(calls, "custom_analysis") \/ Renders(calls, "no_messages") # {}

\* The update of the step is a select, a text or a cancel of a user.
ConversationStep ==
    \/ event'.kind = "analyze" /\ event'.arg = "custom"
    \/ event'.kind \in {"text", "back_to_menu"}

Transcribing ==
    {n \in 1..Len(tasks) : tasks[n].pc = "transcribing"}

\* The toggles of a chat that arrived so far.
Toggles(chat_id) ==
    {n \in 1..Len(tasks) : /\ tasks[n].kind = "toggle_transcription"
                           /\ tasks[n].chat_id = chat_id}

\* C21: the Messages of a chat stand in the table in the order their events
\* arrived, also when the handling of two events of the chat overlaps: the
\* row of an earlier event (a voice message that was awaiting transcription)
\* never stands after the row of a later one (a text).
C21_ArrivalOrder ==
    \A i, j \in 1..Len(messages) :
        (i < j /\ messages[i].chat_id = messages[j].chat_id)
            => messages[i].message_date <= messages[j].message_date

\* C22: when the only two toggles of a chat overlapped (both read the flag
\* before either wrote it, so both read the same value) and both are done,
\* the flag is again what it was before them.
C22_TogglesCompose ==
    \A c \in ChatIds :
        \A m, n \in Toggles(c) :
            (/\ m # n
             /\ Toggles(c) = {m, n}
             /\ tasks[m].pc = "done"
             /\ tasks[n].pc = "done"
             /\ get_chat(chats, c) # {}
             /\ tasks[m].local = tasks[n].local)
                => (FlagTrue(chats, c) <=> tasks[n].local = 1)

\* C23: a temporary file is in use by at most one in-flight handler: no two
\* tasks suspended in transcribe_audio have the same voice_path, also when
\* their events carry the same file id.
C23_ExclusiveFile ==
    \A m, n \in Transcribing :
        voice_path(tasks[m].file_id) = voice_path(tasks[n].file_id) => m = n


(***************************************************************************)
(* C24.  Business messages and the state of their connection.              *)
(***************************************************************************)
BusinessMessageKinds == {"business_text", "business_voice"}

\* C24: a business text or voice event whose connection is unknown or was
\* disabled last creates no Chat row, no Message row, no transcription call
\* and no relay send; a lifecycle event leaves the connection active when it
\* is 'enabled' (also after a 'disabled' one) and inactive when 'disabled';
\* and a business message of an active connection is processed: its chat has
\* a row afterwards, a text is stored as a Message, a voice message is
\* stored or fetched for transcription.
C24_OnlyWhileActive ==
    [][/\ (/\ event'.kind \in BusinessMessageKinds
           /\ ~ActiveConnection(event'.arg))
            => /\ chats' = chats
               /\ messages' = messages
               /\ tmp_files' = tmp_files
               /\ effects' = <<>>
       /\ event'.kind = "business_connection"
            => (\E r \in business_connections' :
                    r.connection_id = event'.arg /\ r.is_active)
                  <=> event'.prior = 1
       /\ (/\ event'.kind \in BusinessMessageKinds
           /\ ActiveConnection(event'.arg))
            => /\ \E r \in chats' : r.chat_id = event'.chat_id
               /\ event'.kind = "business_text"
                    => /\ AppendedOne(messages, messages')
                       /\ Last(messages').chat_id = event'.chat_id
                       /\ ~Last(messages').is_voice
               /\ event'.kind = "business_voice"
                    => \/ /\ AppendedOne(messages, messages')
                          /\ Last(messages').chat_id = event'.chat_id
                          /\ Last(messages').is_voice
                       \/ Called(effects', "get_file")
      ]_vars

\* A business message arrived on a connection that was disabled, before any
\* message was processed: nothing was stored, called or sent.
C24_Witness ==
    /\ event.kind \in BusinessMessageKinds
    /\ \E r \in business_connections :
            r.connection_id = event.arg /\ ~r.is_active
    /\ ~HasChatRow(event.chat_id)
    /\ messages = <<>>
    /\ effects = <<>>


(***************************************************************************)
(* C25.  Who writes transcription_enabled.                                 *)
(***************************************************************************)
MessageKinds == {"text", "voice", "business_text", "business_voice"}

\* C25: the flag of a chat that has a row changes only in a step of
\* toggle_transcription for that chat, and the row stays; a row appears only
\* when a text or voice message of the chat arrives, with the flag TRUE.  So
\* a chat with transcription disabled stays disabled across later messages.
C25_OnlyToggleWrites ==
    [][\A c \in ChatIds :
          /\ \A r \in chats :
                r.chat_id = c
                  => /\ \E q \in chats' : q.chat_id = c
                     /\ \A q \in chats' :
                           (/\ q.chat_id = c
                            /\ q.transcription_enabled
                                 # r.transcription_enabled)
                             => /\ event'.kind = "toggle_transcription"
                                /\ event'.target = c
          /\ ~HasChatRow(c)
               => \A q \in chats' :
                     q.chat_id = c
                       => /\ q.transcription_enabled
                          /\ event'.kind \in MessageKinds
                          /\ event'.chat_id = c
      ]_vars

\* A text arrived in a chat whose transcription is disabled: the upsert of
\* the chat ran, the text is stored, and the chat is still disabled.
C25_Witness ==
    /\ event.kind = "text"
    /\ Authorized(event.user_id)
    /\ FlagFalse(event.chat_id)
    /\ messages # <<>>
    /\ Last(messages).chat_id = event.chat_id
    /\ Last(messages).user_id = event.user_id
    /\ ~Last(messages).is_voice

=============================================================================
